---- MODULE Spec2Model ----
(***************************************************************************)
(* Model of the ESP32 BLE print bridge (src/esp32/src/main.cpp).           *)
(*                                                                         *)
(* Three execution contexts share the globals of main.cpp without any      *)
(* lock: the Arduino main loop ("loop"), the HTTP server task ("http",     *)
(* one task that runs every request handler to completion) and the BLE     *)
(* stack task ("ble", which runs onResult and onDisconnect).  Every step   *)
(* below is one read or write burst of one context; the contexts           *)
(* interleave freely between steps.                                        *)
(***************************************************************************)
EXTENDS Integers, Sequences, FiniteSets, TLC

\* ---------------------------------------------------------------- bounds
MaxClients == 2        \* BLE clients created (connect attempts that reach createClient)
MaxScanCount == 2      \* advertisements counted in one scan
MaxFrags == 2          \* body fragments of one POST /print
MaxTicks == 3          \* clock advances of one run
MaxLen == 500          \* longest fragment whose chunking is followed byte by byte

\* ------------------------------------------------------- program constants
CHUNK_SIZE == 240
SCREEN_TIMEOUT == 30000
HALF == 65536          \* an unsigned long is two 16-bit halves, <<high, low>>

\* --------------------------------------------------------- unsigned long
\* millis() and the times kept from it are 32 bits wide and wrap around.
\* A value is the pair <<high, low>> of its 16-bit halves.
U32(n) == <<(n \div HALF) % HALF, n % HALF>>
Add32(a, b) ==
  LET lo == a[2] + b[2]
      hi == a[1] + b[1] + (lo \div HALF)
  IN  <<hi % HALF, lo % HALF>>
Sub32(a, b) ==
  LET lo == a[2] - b[2]
      hi == a[1] - b[1] - (IF lo < 0 THEN 1 ELSE 0)
  IN  <<(hi + HALF) % HALF, (lo + HALF) % HALF>>
Gt32(a, b) == a[1] > b[1] \/ (a[1] = b[1] /\ a[2] > b[2])
\* n / 1000 without leaving the range of the model checker's integers
Div1000(a) == a[1] * 65 + ((a[1] * 536 + a[2]) \div 1000)
\* a sum that does not wrap: the high half grows
AddWide(a, b) ==
  LET lo == a[2] + b[2]
  IN  <<a[1] + b[1] + (lo \div HALF), lo % HALF>>

\* ---------------------------------------------------------------- strings
\* A String is modelled as the sequence of its characters.
TargetLiteral ==
  <<"d","d",":","0","d",":","3","0",":","0","2",":","6","3",":","4","2">>
UpperTarget ==
  <<"D","D",":","0","D",":","3","0",":","0","2",":","6","3",":","4","2">>
OtherAddr ==
  <<"d","d",":","0","d",":","3","0",":","0","2",":","6","3",":","4","3">>

\* The addresses an advertisement can carry (getAddress().toString()).
AdvAddrs == {TargetLiteral, UpperTarget, OtherAddr}

toLowerCase(c) ==
  CASE c = "A" -> "a" [] c = "B" -> "b" [] c = "C" -> "c"
    [] c = "D" -> "d" [] c = "E" -> "e" [] c = "F" -> "f"
    [] OTHER -> c

\* String::equalsIgnoreCase: same length and equal character by character
\* once both are lower-cased.
equalsIgnoreCase(s, t) ==
  /\ Len(s) = Len(t)
  /\ \A i \in 1..Len(s) : toLowerCase(s[i]) = toLowerCase(t[i])

\* a comparison that tells capitals from small letters
IsPrinterExact(addr) == addr = TargetLiteral

\* The comparison of onResult (line 49).
IsPrinter(addr) == equalsIgnoreCase(addr, TargetLiteral)

\* ------------------------------------------------------------------ state
VARIABLES
  \* globals of main.cpp
  printerName,            \* String printerName (line 23)
  myDevice,               \* BLEAdvertisedDevice* myDevice (line 27)
  printerFound,           \* bool printerFound (line 28)
  scanCount,              \* int scanCount (line 29)
  printerConnected,       \* bool printerConnected (line 30)
  pClient,                \* BLEClient* pClient (line 81): 0 is nullptr
  pRemoteCharacteristic,  \* BLERemoteCharacteristic* (line 82)
  wifiIP,                 \* String wifiIP (line 83)
  lastActivityTime,       \* unsigned long lastActivityTime (line 94)
  isScreenOn,             \* bool isScreenOn (line 95)
  \* the world outside the program
  scanning,               \* the radio is scanning (pBLEScan->start .. stop)
  link,                   \* link[c]: GATT link of client c: "down", "up", "closing"
  wifiUp,                 \* WiFi.status() == WL_CONNECTED
  now,                    \* millis()
  ticks,                  \* clock advances so far
  \* the three contexts
  pc,                     \* pc[ctx]: where each context stands
  adv,                    \* the address of the advertisement onResult is handling
  cret,                   \* cret[ctx]: what connectToPrinter returned to ctx
  csvc,                   \* csvc[ctx]: pRemoteService of ctx's connectToPrinter
  cdev,                   \* cdev[ctx]: ctx's connectToPrinter has read *myDevice
  fault,                  \* the crash that halted the device, or "none"
  print,                  \* the running printToBLEPrinter call
  req,                    \* the POST /print request being received
  resp,                   \* the last HTTP response sent
  tcheck,                 \* checkScreenTimeout's read of millis()
  idle                    \* the time that really passed since the last activity

vars == <<printerName, myDevice, printerFound, scanCount, printerConnected,
          pClient, pRemoteCharacteristic, wifiIP, lastActivityTime, isScreenOn,
          scanning, link, wifiUp, now, ticks, pc, adv, cret, csvc, cdev, fault,
          print, req, resp, tcheck, idle>>

linkVars == <<printerName, myDevice, printerFound, scanCount, printerConnected,
              pClient, pRemoteCharacteristic, scanning, link>>
screenVars == <<lastActivityTime, isScreenOn>>
wifiVars == <<wifiIP, wifiUp>>
clockVars == <<now, ticks, idle>>
httpVars == <<print, req, resp>>
connVars == <<cret, csvc, cdev>>
faultVars == <<fault>>

Contexts == {"loop", "http", "ble"}

NullDev == [st |-> "null", addr |-> <<>>]
FreedDev == [st |-> "freed", addr |-> <<>>]
\* A BLEAdvertisedDevice holds the address as six bytes: the letter case of
\* its text form is not part of it.
Device(a) == [st |-> "dev", addr |-> [i \in 1..Len(a) |-> toLowerCase(a[i])]]

NullChar == [owner |-> 0, writable |-> FALSE]
Characteristic(c, w) == [owner |-> c, writable |-> w]

DefaultName == "Unknown"
DeviceName == "XP-D463B"
NoIP == ""
LocalIP == "192.168.1.50"

NoPrint == [length |-> 0, offset |-> 0, chunks |-> <<>>, failed |-> 0]
NoReq == [open |-> FALSE, frags |-> 0, dropped |-> 0, writes |-> 0, up |-> FALSE]
NoResp == [route |-> "none", code |-> 0, text |-> "", json |-> <<>>, req |-> NoReq]

\* The state setup() leaves: the backlight on, the activity time taken, WiFi
\* connected with an address or failed with none, no scan, no client.
Init ==
  /\ printerName = DefaultName
  /\ myDevice = NullDev
  /\ printerFound = FALSE
  /\ scanCount = 0
  /\ printerConnected = FALSE
  /\ pClient = 0
  /\ pRemoteCharacteristic = NullChar
  /\ \E up \in BOOLEAN : wifiUp = up /\ wifiIP = IF up THEN LocalIP ELSE NoIP
  /\ lastActivityTime = U32(0)
  /\ isScreenOn = TRUE
  /\ scanning = FALSE
  /\ link = <<>>
  /\ now = U32(0)
  /\ ticks = 0
  /\ pc = [c \in Contexts |-> IF c = "loop" THEN "l_button" ELSE "idle"]
  /\ adv = <<>>
  /\ cret = [c \in Contexts |-> FALSE]
  /\ csvc = [c \in Contexts |-> 0]
  /\ cdev = [c \in Contexts |-> FALSE]
  /\ fault = "none"
  /\ print = NoPrint
  /\ req = NoReq
  /\ resp = NoResp
  /\ tcheck = U32(0)
  /\ idle = U32(0)

Goto(self, l) == pc' = [pc EXCEPT ![self] = l]

\* ------------------------------------------------------------ BLE context
\* MyAdvertisedDeviceCallbacks::onResult, lines 46-58: count the
\* advertisement; on a match stop the scan and delete the stored device.
Advertisement(addr) ==
  /\ pc["ble"] = "idle"
  /\ scanning
  /\ scanCount < MaxScanCount
  /\ scanCount' = scanCount + 1
  /\ adv' = addr
  /\ IF IsPrinter(addr)
       THEN /\ scanning' = FALSE
            /\ myDevice' = IF myDevice.st = "null" THEN NullDev ELSE FreedDev
            /\ Goto("ble", "b_store")
       ELSE /\ Goto("ble", "b_return")
            /\ UNCHANGED <<scanning, myDevice>>
  /\ UNCHANGED <<printerName, printerFound, printerConnected, pClient,
                 pRemoteCharacteristic, link, screenVars, wifiVars, clockVars,
                 connVars, faultVars, httpVars, tcheck>>

\* onResult, lines 59-60: store a copy of the advertised device and set
\* the found flag.
StoreDevice ==
  /\ pc["ble"] = "b_store"
  /\ myDevice' = Device(adv)
  /\ printerFound' = TRUE
  /\ adv' = <<>>
  /\ Goto("ble", "idle")
  /\ UNCHANGED <<printerName, scanCount, printerConnected, pClient,
                 pRemoteCharacteristic, scanning, link, screenVars, wifiVars,
                 clockVars, connVars, faultVars, httpVars, tcheck>>

\* onResult returns without a match, line 76
ResultReturn ==
  /\ pc["ble"] = "b_return"
  /\ adv' = <<>>
  /\ Goto("ble", "idle")
  /\ UNCHANGED <<linkVars, screenVars, wifiVars, clockVars, connVars, faultVars,
                 httpVars, tcheck>>

\* The scan's 5 seconds are over (pBLEScan->start(5, false), line 163).
ScanTimeout ==
  /\ scanning
  /\ pc["ble"] = "idle"
  /\ scanning' = FALSE
  /\ UNCHANGED <<printerName, myDevice, printerFound, scanCount, printerConnected,
                 pClient, pRemoteCharacteristic, link, screenVars, wifiVars,
                 clockVars, pc, adv, connVars, faultVars, httpVars, tcheck>>

\* BLEClient::isConnected(): true until the stack has reported the disconnect.
isConnected(c) == link[c] \in {"up", "closing"}

\* BLEClient::disconnect(): asks the stack to close the link; the stack
\* reports the disconnect later, in its own context.
disconnect(c) == IF link[c] = "up" THEN [link EXCEPT ![c] = "closing"] ELSE link

\* The stack reports that client c lost its link (the peer dropped it, or
\* the program closed it) and calls the client's callbacks.
DisconnectEvent(c) ==
  /\ pc["ble"] = "idle"
  /\ isConnected(c)
  /\ link' = [link EXCEPT ![c] = "down"]
  /\ Goto("ble", "b_ondisc")
  /\ UNCHANGED <<printerName, myDevice, printerFound, scanCount, printerConnected,
                 pClient, pRemoteCharacteristic, scanning, screenVars, wifiVars,
                 clockVars, adv, connVars, faultVars, httpVars, tcheck>>

\* MyClientCallback::onDisconnect, lines 38-41.
onDisconnect ==
  /\ pc["ble"] = "b_ondisc"
  /\ printerConnected' = FALSE
  /\ Goto("ble", "idle")
  /\ UNCHANGED <<printerName, myDevice, printerFound, scanCount, pClient,
                 pRemoteCharacteristic, scanning, link, screenVars, wifiVars,
                 clockVars, adv, connVars, faultVars, httpVars, tcheck>>

\* ------------------------------------------------------- connectToPrinter
\* connectToPrinter runs in the main loop (line 194) and in the handler of
\* GET /connect (line 268); self is the context that runs it.
Callers == {"loop", "http"}

\* return from connectToPrinter to the caller's next statement
Return(self, val) ==
  /\ cret' = [cret EXCEPT ![self] = val]
  /\ Goto(self, IF self = "loop" THEN "l_after" ELSE "h_connected")

\* A read through a null pointer, or a crash on freed memory, halts the
\* device (a panic): no context takes another step.
Halt(kind) ==
  /\ fault' = kind
  /\ pc' = [c \in Contexts |-> "halted"]

\* lines 307-310 without the early return
ConnectEntryNoReturn(self) ==
  /\ pc[self] = "c_entry"
  /\ Goto(self, "c_cleanup")
  /\ UNCHANGED <<linkVars, screenVars, wifiVars, clockVars, adv, connVars,
                 faultVars, httpVars, tcheck>>

\* lines 307-310: already connected, nothing to do
ConnectEntry(self) ==
  /\ pc[self] = "c_entry"
  /\ IF printerConnected
       THEN Return(self, TRUE)
       ELSE Goto(self, "c_found") /\ UNCHANGED cret
  /\ UNCHANGED <<linkVars, screenVars, wifiVars, clockVars, adv, csvc, cdev,
                 faultVars, httpVars, tcheck>>

\* lines 312-317: no device found yet; else log the device's address, a
\* read of *myDevice.  Reading a deleted device either goes on with what
\* the freed memory holds or crashes.
ConnectFound(self) ==
  /\ pc[self] = "c_found"
  /\ IF ~printerFound \/ myDevice.st = "null"
       THEN Return(self, FALSE) /\ UNCHANGED <<cdev, faultVars>>
       ELSE /\ cdev' = [cdev EXCEPT ![self] = TRUE]
            /\ IF myDevice.st = "freed"
                 THEN \/ /\ Goto(self, "c_cleanup")
                         /\ UNCHANGED <<cret, fault>>
                      \/ /\ Halt("use_after_free")
                         /\ UNCHANGED cret
                 ELSE Goto(self, "c_cleanup") /\ UNCHANGED <<cret, faultVars>>
  /\ UNCHANGED <<linkVars, screenVars, wifiVars, clockVars, adv, csvc, httpVars,
                 tcheck>>

\* lines 320-326: drop the previous client (it is not deleted)
ConnectCleanup(self) ==
  /\ pc[self] = "c_cleanup"
  /\ IF pClient # 0
       THEN link' = disconnect(pClient) /\ pClient' = 0
       ELSE UNCHANGED <<link, pClient>>
  /\ Goto(self, "c_create")
  /\ UNCHANGED <<printerName, myDevice, printerFound, scanCount, printerConnected,
                 pRemoteCharacteristic, scanning, screenVars, wifiVars, clockVars,
                 adv, connVars, faultVars, httpVars, tcheck>>

\* lines 329-334: BLEDevice::createClient() gives a new client, or nullptr
ConnectCreate(self) ==
  /\ pc[self] = "c_create"
  /\ Len(link) < MaxClients
  /\ \/ /\ link' = Append(link, "down")
        /\ pClient' = Len(link) + 1
        /\ Goto(self, "c_connect")
        /\ UNCHANGED cret
     \/ /\ pClient' = 0
        /\ Return(self, FALSE)
        /\ UNCHANGED link
  /\ UNCHANGED <<printerName, myDevice, printerFound, scanCount, printerConnected,
                 pRemoteCharacteristic, scanning, screenVars, wifiVars, clockVars,
                 adv, csvc, cdev, faultVars, httpVars, tcheck>>

\* line 339: pClient->connect(myDevice) blocks until the handshake has
\* completed or failed.  It reads the global pClient and *myDevice.
ConnectGatt(self) ==
  /\ pc[self] = "c_connect"
  /\ IF pClient = 0
       THEN /\ Halt("null_deref")
            /\ UNCHANGED link
       ELSE \E ok \in BOOLEAN :
            /\ link' = IF ok THEN [link EXCEPT ![pClient] = "up"] ELSE link
            /\ \/ /\ Goto(self, IF ok THEN "c_mtu" ELSE "c_fail")
                  /\ UNCHANGED fault
               \/ /\ myDevice.st = "freed"
                  /\ ~ok
                  /\ Halt("use_after_free")
  /\ UNCHANGED <<printerName, myDevice, printerFound, scanCount, printerConnected,
                 pClient, pRemoteCharacteristic, scanning, screenVars, wifiVars,
                 clockVars, adv, connVars, httpVars, tcheck>>

\* The failure exit every failing step takes (lines 343-346, 361-364,
\* 371-374, 383-386): close, forget the client, clear the flag, return false.
ConnectFail(self) ==
  /\ pc[self] = "c_fail"
  /\ IF pClient = 0
       THEN /\ Halt("null_deref")
            /\ UNCHANGED <<link, pClient, printerConnected, cret>>
       ELSE /\ link' = disconnect(pClient)
            /\ pClient' = 0
            /\ printerConnected' = FALSE
            /\ Return(self, FALSE)
            /\ UNCHANGED fault
  /\ UNCHANGED <<printerName, myDevice, printerFound, scanCount,
                 pRemoteCharacteristic, scanning, screenVars, wifiVars, clockVars,
                 adv, csvc, cdev, httpVars, tcheck>>

\* lines 352-365: set the MTU, wait 100 ms, check the link is still up
ConnectMtu(self) ==
  /\ pc[self] = "c_mtu"
  /\ IF pClient = 0
       THEN Halt("null_deref")
       ELSE /\ Goto(self, IF isConnected(pClient) THEN "c_service" ELSE "c_fail")
            /\ UNCHANGED fault
  /\ UNCHANGED <<linkVars, screenVars, wifiVars, clockVars, adv, connVars,
                 httpVars, tcheck>>

\* lines 368-375: resolve the printer's service; it is found only on a live
\* link, and may be missing
ConnectService(self) ==
  /\ pc[self] = "c_service"
  /\ IF pClient = 0
       THEN Halt("null_deref") /\ UNCHANGED csvc
       ELSE /\ \/ /\ isConnected(pClient)
                  /\ csvc' = [csvc EXCEPT ![self] = pClient]
                  /\ Goto(self, "c_char")
               \/ /\ Goto(self, "c_fail")
                  /\ UNCHANGED csvc
            /\ UNCHANGED fault
  /\ UNCHANGED <<linkVars, screenVars, wifiVars, clockVars, adv, cret, cdev,
                 httpVars, tcheck>>

\* lines 379-387: resolve the characteristic, straight into the global
ConnectCharacteristic(self) ==
  /\ pc[self] = "c_char"
  /\ \/ \E w \in BOOLEAN :
          /\ pRemoteCharacteristic' = Characteristic(csvc[self], w)
          /\ Goto(self, "c_name")
     \/ /\ pRemoteCharacteristic' = NullChar
        /\ Goto(self, "c_fail")
  /\ csvc' = [csvc EXCEPT ![self] = 0]
  /\ UNCHANGED <<printerName, myDevice, printerFound, scanCount, printerConnected,
                 pClient, scanning, link, screenVars, wifiVars, clockVars, adv,
                 cret, cdev, faultVars, httpVars, tcheck>>

\* lines 393-415: read the device name if the generic access service, the
\* name characteristic and the read permission are all there
ConnectName(self) ==
  /\ pc[self] = "c_name"
  /\ IF pClient = 0
       THEN Halt("null_deref") /\ UNCHANGED printerName
       ELSE /\ \/ printerName' = DeviceName
               \/ UNCHANGED printerName
            /\ Goto(self, "c_done")
            /\ UNCHANGED fault
  /\ UNCHANGED <<myDevice, printerFound, scanCount, printerConnected, pClient,
                 pRemoteCharacteristic, scanning, link, screenVars, wifiVars,
                 clockVars, adv, connVars, httpVars, tcheck>>

\* lines 417-419
ConnectDone(self) ==
  /\ pc[self] = "c_done"
  /\ printerConnected' = TRUE
  /\ req' = [req EXCEPT !.up = req.up \/ req.open]
  /\ Return(self, TRUE)
  /\ UNCHANGED <<printerName, myDevice, printerFound, scanCount, pClient,
                 pRemoteCharacteristic, scanning, link, screenVars, wifiVars,
                 clockVars, adv, csvc, cdev, faultVars, print, resp, tcheck>>

connectToPrinter(self) ==
  \/ ConnectEntry(self)
  \/ ConnectFound(self)
  \/ ConnectCleanup(self)
  \/ ConnectCreate(self)
  \/ ConnectGatt(self)
  \/ ConnectFail(self)
  \/ ConnectMtu(self)
  \/ ConnectService(self)
  \/ ConnectCharacteristic(self)
  \/ ConnectName(self)
  \/ ConnectDone(self)

\* ------------------------------------------------------------ screen power
\* wakeScreen, line 523
WakeStamp(self, next) ==
  /\ lastActivityTime' = now
  /\ idle' = U32(0)
  /\ Goto(self, next)
  /\ UNCHANGED <<linkVars, isScreenOn, wifiVars, now, ticks, adv, connVars,
                 faultVars, httpVars, tcheck>>

\* wakeScreen, lines 524-529 (updateLCD only draws)
WakeLight(self, next) ==
  /\ isScreenOn' = IF ~isScreenOn THEN TRUE ELSE isScreenOn
  /\ Goto(self, next)
  /\ UNCHANGED <<linkVars, lastActivityTime, wifiVars, clockVars, adv, connVars,
                 faultVars, httpVars, tcheck>>

\* checkScreenTimeout, line 533: the test of isScreenOn and the call of
\* millis()
CheckRead ==
  /\ pc["loop"] = "l_check"
  /\ IF isScreenOn
       THEN tcheck' = now /\ Goto("loop", "l_check2")
       ELSE UNCHANGED tcheck /\ Goto("loop", "l_scan")
  /\ UNCHANGED <<linkVars, screenVars, wifiVars, clockVars, adv, connVars,
                 faultVars, httpVars>>

\* the comparison of checkScreenTimeout, line 533
TimedOut(t, last) == Gt32(Sub32(t, last), U32(SCREEN_TIMEOUT))

\* checkScreenTimeout, lines 533-537: subtract the activity time, compare,
\* switch the backlight off
CheckTimeout ==
  /\ pc["loop"] = "l_check2"
  /\ isScreenOn' = IF TimedOut(tcheck, lastActivityTime) THEN FALSE ELSE isScreenOn
  /\ tcheck' = U32(0)
  /\ Goto("loop", "l_scan")
  /\ UNCHANGED <<linkVars, lastActivityTime, wifiVars, clockVars, adv, connVars,
                 faultVars, httpVars>>

\* Time passes: one millisecond, half a timeout, or all but one timeout of
\* the 32-bit range.
MilliStep == U32(1)
TickStep == U32(SCREEN_TIMEOUT \div 2)
LongStep == Sub32(U32(0), U32(SCREEN_TIMEOUT))
Tick ==
  /\ fault = "none"
  /\ ticks < MaxTicks
  /\ \E d \in {MilliStep, TickStep, LongStep} :
       /\ now' = Add32(now, d)
       /\ idle' = AddWide(idle, d)
  /\ ticks' = ticks + 1
  /\ UNCHANGED <<linkVars, screenVars, wifiVars, pc, adv, connVars, faultVars,
                 httpVars, tcheck>>

\* ------------------------------------------------------------------ status
\* getStatusJSON, lines 506-520: the object as its key/value pairs, in order
getStatusJSON ==
  << <<"wifi", IF wifiUp THEN "connected" ELSE "disconnected">>,
     <<"ip", wifiIP>>,
     <<"printer", IF printerConnected THEN "connected" ELSE "disconnected">>,
     <<"printerName", printerName>>,
     <<"uptime", Div1000(now)>> >>

\* ------------------------------------------------------- printToBLEPrinter
\* The sizes a body fragment can have.
RelayLens == {0, 2 * CHUNK_SIZE + 20}
ScreenLens == {0, CHUNK_SIZE + 1}

\* The bytes of a fragment of n bytes: byte i is i modulo 256.
Payload(n) == [i \in 1..n |-> i % 256]

\* line 449 without the clamp to what remains
ChunkSizeNoClamp(remaining) == CHUNK_SIZE

\* line 449
ChunkSizeAt(remaining) == IF remaining > CHUNK_SIZE THEN CHUNK_SIZE ELSE remaining

\* the call has returned to the body handler (line 263), which returns
PrintReturn(result) ==
  /\ print' = NoPrint
  /\ req' = [req EXCEPT !.dropped = IF result = "NotConnected" THEN @ + 1 ELSE @,
                        !.writes = @ + Len(print.chunks)]
  /\ Goto("http", "idle")

\* lines 435-438 with the test of printerConnected left out
PrintCheckHandleOnly ==
  /\ pc["http"] = "p_check"
  /\ IF pRemoteCharacteristic = NullChar
       THEN PrintReturn("NotConnected")
       ELSE Goto("http", "p_canwrite") /\ UNCHANGED <<print, req>>
  /\ UNCHANGED <<linkVars, screenVars, wifiVars, clockVars, adv, connVars,
                 faultVars, resp, tcheck>>

\* lines 435-438
PrintCheck ==
  /\ pc["http"] = "p_check"
  /\ IF ~printerConnected \/ pRemoteCharacteristic = NullChar
       THEN PrintReturn("NotConnected")
       ELSE Goto("http", "p_canwrite") /\ UNCHANGED <<print, req>>
  /\ UNCHANGED <<linkVars, screenVars, wifiVars, clockVars, adv, connVars,
                 faultVars, resp, tcheck>>

\* line 440 (and 455-457): pRemoteCharacteristic->canWrite()
PrintCanWrite ==
  /\ pc["http"] = "p_canwrite"
  /\ IF pRemoteCharacteristic = NullChar
       THEN Halt("null_deref") /\ UNCHANGED <<print, req>>
       ELSE /\ IF pRemoteCharacteristic.writable
                 THEN Goto("http", "p_loop") /\ UNCHANGED <<print, req>>
                 ELSE PrintReturn("NotWritable")
            /\ UNCHANGED fault
  /\ UNCHANGED <<linkVars, screenVars, wifiVars, clockVars, adv, connVars,
                 resp, tcheck>>

\* lines 447-454: one turn of the loop, which writes one chunk with
\* response and waits for the acknowledgement, or the loop's end.  The
\* write is acknowledged (ok) only on a live link; its result is not looked at.
PrintChunk ==
  /\ pc["http"] = "p_loop"
  /\ IF print.offset < print.length
       THEN IF pRemoteCharacteristic = NullChar
              THEN Halt("null_deref") /\ UNCHANGED <<print, req>>
              ELSE /\ \E ok \in BOOLEAN :
                        /\ ok => link[pRemoteCharacteristic.owner] = "up"
                        /\ LET size == ChunkSizeAt(print.length - print.offset)
                           IN print' = [print EXCEPT
                                 !.chunks = Append(@, <<print.offset, size>>),
                                 !.failed = IF ~ok /\ @ = 0
                                              THEN Len(print.chunks) + 1 ELSE @,
                                 !.offset = @ + size]
                   /\ UNCHANGED <<pc, req, fault>>
       ELSE PrintReturn("Printed") /\ UNCHANGED fault
  /\ UNCHANGED <<linkVars, screenVars, wifiVars, clockVars, adv, connVars,
                 resp, tcheck>>

printToBLEPrinter ==
  \/ pc["http"] = "p_wake" /\ WakeStamp("http", "p_wake2")
  \/ pc["http"] = "p_wake2" /\ WakeLight("http", "p_check")
  \/ PrintCheck
  \/ PrintCanWrite
  \/ PrintChunk

\* --------------------------------------------------- disconnectFromPrinter
\* lines 423-425
DisconnectClose ==
  /\ pc["http"] = "d_close"
  /\ link' = IF pClient # 0 THEN disconnect(pClient) ELSE link
  /\ Goto("http", "d_clear")
  /\ UNCHANGED <<printerName, myDevice, printerFound, scanCount, printerConnected,
                 pClient, pRemoteCharacteristic, scanning, screenVars, wifiVars,
                 clockVars, adv, connVars, faultVars, httpVars, tcheck>>

\* line 427 left out: the handle is kept
DisconnectClearKeepsHandle ==
  /\ pc["http"] = "d_clear"
  /\ Goto("http", "d_flag")
  /\ UNCHANGED <<linkVars, screenVars, wifiVars, clockVars, adv, connVars,
                 faultVars, httpVars, tcheck>>

\* line 427
DisconnectClear ==
  /\ pc["http"] = "d_clear"
  /\ pRemoteCharacteristic' = NullChar
  /\ Goto("http", "d_flag")
  /\ UNCHANGED <<printerName, myDevice, printerFound, scanCount, printerConnected,
                 pClient, scanning, link, screenVars, wifiVars, clockVars, adv,
                 connVars, faultVars, httpVars, tcheck>>

\* lines 428-429, and the answer of GET /disconnect (line 278)
DisconnectFlag ==
  /\ pc["http"] = "d_flag"
  /\ printerConnected' = FALSE
  /\ resp' = [NoResp EXCEPT !.route = "/disconnect", !.code = 200,
                            !.text = "Printer disconnected"]
  /\ Goto("http", "h_send")
  /\ UNCHANGED <<printerName, myDevice, printerFound, scanCount, pClient,
                 pRemoteCharacteristic, scanning, link, screenVars, wifiVars,
                 clockVars, adv, connVars, faultVars, print, req, tcheck>>

disconnectFromPrinter == DisconnectClose \/ DisconnectClear \/ DisconnectFlag

\* ------------------------------------------------------------ HTTP context
\* Requests reach the server over WiFi; the server task runs one handler at
\* a time.

\* GET /status, lines 248-251
GetStatus ==
  /\ pc["http"] = "idle"
  /\ wifiUp
  /\ resp' = [NoResp EXCEPT !.route = "/status", !.code = 200,
                            !.json = getStatusJSON]
  /\ Goto("http", "h_send")
  /\ UNCHANGED <<linkVars, screenVars, wifiVars, clockVars, adv, connVars,
                 faultVars, print, req, tcheck>>

\* GET /connect, line 268: the call
GetConnect ==
  /\ pc["http"] = "idle"
  /\ wifiUp
  /\ Goto("http", "c_entry")
  /\ UNCHANGED <<linkVars, screenVars, wifiVars, clockVars, adv, connVars,
                 faultVars, httpVars, tcheck>>

\* GET /connect, lines 268-272: the answer
GetConnectAnswer ==
  /\ pc["http"] = "h_connected"
  /\ resp' = IF cret["http"]
               THEN [NoResp EXCEPT !.route = "/connect", !.code = 200,
                                   !.text = "Printer connected"]
               ELSE [NoResp EXCEPT !.route = "/connect", !.code = 500,
                                   !.text = "Failed to connect to printer"]
  /\ cret' = [cret EXCEPT !["http"] = FALSE]
  /\ cdev' = [cdev EXCEPT !["http"] = FALSE]
  /\ Goto("http", "h_send")
  /\ UNCHANGED <<linkVars, screenVars, wifiVars, clockVars, adv, csvc,
                 faultVars, print, req, tcheck>>

\* GET /disconnect, line 277: the call
GetDisconnect ==
  /\ pc["http"] = "idle"
  /\ wifiUp
  /\ Goto("http", "d_close")
  /\ UNCHANGED <<linkVars, screenVars, wifiVars, clockVars, adv, connVars,
                 faultVars, httpVars, tcheck>>

\* POST /print, lines 262-264: one fragment of the body has arrived
PostPrintBody(len) ==
  /\ pc["http"] = "idle"
  /\ wifiUp
  /\ req.frags < MaxFrags
  /\ req' = [req EXCEPT !.open = TRUE, !.frags = @ + 1,
                        !.up = @ \/ printerConnected]
  /\ print' = [NoPrint EXCEPT !.length = len]
  /\ Goto("http", "p_wake")
  /\ UNCHANGED <<linkVars, screenVars, wifiVars, clockVars, adv, connVars,
                 faultVars, resp, tcheck>>

\* POST /print, lines 254-261, answering 200 whatever the flag says
PostPrintAlwaysOk ==
  /\ pc["http"] = "idle"
  /\ wifiUp
  /\ resp' = [NoResp EXCEPT
       !.route = "/print",
       !.code = 200,
       !.text = "Print successful",
       !.req = [req EXCEPT !.open = TRUE, !.up = @ \/ printerConnected]]
  /\ req' = NoReq
  /\ Goto("http", "h_send")
  /\ UNCHANGED <<linkVars, screenVars, wifiVars, clockVars, adv, connVars,
                 faultVars, print, tcheck>>

\* POST /print, lines 254-261: the whole request has arrived
PostPrint ==
  /\ pc["http"] = "idle"
  /\ wifiUp
  /\ resp' = [NoResp EXCEPT
       !.route = "/print",
       !.code = IF ~printerConnected THEN 500 ELSE 200,
       !.text = IF ~printerConnected THEN "Printer not connected"
                                     ELSE "Print successful",
       !.req = [req EXCEPT !.open = TRUE, !.up = @ \/ printerConnected]]
  /\ req' = NoReq
  /\ Goto("http", "h_send")
  /\ UNCHANGED <<linkVars, screenVars, wifiVars, clockVars, adv, connVars,
                 faultVars, print, tcheck>>

\* request->send: the response leaves, the handler returns
HttpSend ==
  /\ pc["http"] = "h_send"
  /\ resp' = NoResp
  /\ Goto("http", "idle")
  /\ UNCHANGED <<linkVars, screenVars, wifiVars, clockVars, adv, connVars,
                 faultVars, print, req, tcheck>>

\* --------------------------------------------------------------- main loop
\* lines 172-174: the button
LoopButton ==
  /\ pc["loop"] = "l_button"
  /\ \E pressed \in BOOLEAN : Goto("loop", IF pressed THEN "l_wake" ELSE "l_check")
  /\ UNCHANGED <<linkVars, screenVars, wifiVars, clockVars, adv, connVars,
                 faultVars, httpVars, tcheck>>

\* lines 186-189 and startBLEScan, lines 154-166; whether ten seconds have
\* passed since the last scan is left open
LoopScan ==
  /\ pc["loop"] = "l_scan"
  /\ \/ /\ scanCount' = 0
        /\ printerFound' = FALSE
        /\ scanning' = TRUE
        /\ Goto("loop", "l_scan_wait")
     \/ /\ Goto("loop", "l_reconn")
        /\ UNCHANGED <<scanCount, printerFound, scanning>>
  /\ UNCHANGED <<printerName, myDevice, printerConnected, pClient,
                 pRemoteCharacteristic, link, screenVars, wifiVars, clockVars,
                 adv, connVars, faultVars, httpVars, tcheck>>

\* line 163: pBLEScan->start(5, false) returns when the scan has ended
LoopScanEnd ==
  /\ pc["loop"] = "l_scan_wait"
  /\ ~scanning
  /\ Goto("loop", "l_reconn")
  /\ UNCHANGED <<linkVars, screenVars, wifiVars, clockVars, adv, connVars,
                 faultVars, httpVars, tcheck>>

\* lines 192-194
LoopReconnect ==
  /\ pc["loop"] = "l_reconn"
  /\ Goto("loop", IF ~printerConnected /\ printerFound THEN "c_entry" ELSE "l_wifi")
  /\ UNCHANGED <<linkVars, screenVars, wifiVars, clockVars, adv, connVars,
                 faultVars, httpVars, tcheck>>

\* lines 194-200: printerFound = false on either result
LoopAfterConnect ==
  /\ pc["loop"] = "l_after"
  /\ printerFound' = FALSE
  /\ cret' = [cret EXCEPT !["loop"] = FALSE]
  /\ cdev' = [cdev EXCEPT !["loop"] = FALSE]
  /\ Goto("loop", "l_wifi")
  /\ UNCHANGED <<printerName, myDevice, scanCount, printerConnected, pClient,
                 pRemoteCharacteristic, scanning, link, screenVars, wifiVars,
                 clockVars, adv, csvc, faultVars, httpVars, tcheck>>

\* lines 204-209
LoopWiFi ==
  /\ pc["loop"] = "l_wifi"
  /\ Goto("loop", IF ~wifiUp THEN "l_wifi_wait" ELSE "l_button")
  /\ UNCHANGED <<linkVars, screenVars, wifiVars, clockVars, adv, connVars,
                 faultVars, httpVars, tcheck>>

\* connectToWiFi, lines 212-233: connected with an address, or given up
connectToWiFi ==
  /\ pc["loop"] = "l_wifi_wait"
  /\ \/ wifiUp' = TRUE /\ wifiIP' = LocalIP
     \/ ~wifiUp /\ wifiUp' = FALSE /\ wifiIP' = NoIP
  /\ Goto("loop", "l_button")
  /\ UNCHANGED <<linkVars, screenVars, clockVars, adv, connVars, faultVars,
                 httpVars, tcheck>>

\* the access point goes away
WiFiDrop ==
  /\ fault = "none"
  /\ wifiUp
  /\ wifiUp' = FALSE
  /\ UNCHANGED <<linkVars, screenVars, wifiIP, clockVars, pc, adv, connVars,
                 faultVars, httpVars, tcheck>>

loop ==
  \/ LoopButton
  \/ pc["loop"] = "l_wake" /\ WakeStamp("loop", "l_wake2")
  \/ pc["loop"] = "l_wake2" /\ WakeLight("loop", "l_check")
  \/ CheckRead
  \/ CheckTimeout
  \/ LoopScan
  \/ LoopScanEnd
  \/ LoopReconnect
  \/ connectToPrinter("loop")
  \/ LoopAfterConnect
  \/ LoopWiFi
  \/ connectToWiFi

\* the routes that manage the link
httpLink ==
  \/ GetStatus
  \/ GetConnect
  \/ connectToPrinter("http")
  \/ GetConnectAnswer
  \/ GetDisconnect
  \/ disconnectFromPrinter
  \/ HttpSend

\* the print route, with GET /disconnect
httpPrint ==
  \/ \E len \in RelayLens : PostPrintBody(len)
  \/ printToBLEPrinter
  \/ PostPrint
  \/ GetDisconnect
  \/ disconnectFromPrinter
  \/ HttpSend

ble ==
  \/ \E addr \in AdvAddrs : Advertisement(addr)
  \/ StoreDevice
  \/ ResultReturn
  \/ ScanTimeout
  \/ \E c \in 1..Len(link) : DisconnectEvent(c)
  \/ onDisconnect

\* The link's life: the three contexts, with the clock and WiFi left alone.
Next == loop \/ httpLink \/ ble

Spec == Init /\ [][Next]_vars

\* The print relay beside the link's life.
NextPrint == loop \/ httpPrint \/ ble

SpecPrint == Init /\ [][NextPrint]_vars

\* ------------------------------------------------- a session already made
\* The state after setup(), one scan that found the printer and one
\* connectToPrinter that succeeded: client 1 is connected and its
\* characteristic, writable or not, is resolved.
InitSession ==
  /\ printerName \in {DefaultName, DeviceName}
  /\ myDevice = Device(TargetLiteral)
  /\ printerFound = FALSE
  /\ scanCount = 1
  /\ printerConnected = TRUE
  /\ pClient = 1
  /\ \E w \in BOOLEAN : pRemoteCharacteristic = Characteristic(1, w)
  /\ wifiUp = TRUE
  /\ wifiIP = LocalIP
  /\ lastActivityTime = U32(0)
  /\ isScreenOn = TRUE
  /\ scanning = FALSE
  /\ link = <<"up">>
  /\ now = U32(0)
  /\ ticks = 0
  /\ pc = [c \in Contexts |-> IF c = "loop" THEN "l_button" ELSE "idle"]
  /\ adv = <<>>
  /\ cret = [c \in Contexts |-> FALSE]
  /\ csvc = [c \in Contexts |-> 0]
  /\ cdev = [c \in Contexts |-> FALSE]
  /\ fault = "none"
  /\ print = NoPrint
  /\ req = NoReq
  /\ resp = NoResp
  /\ tcheck = U32(0)
  /\ idle = U32(0)

\* Chunking alone: fragments of every length up to MaxLen are printed over
\* an open session, nothing else runs.
NextChunk ==
  \/ \E len \in 0..MaxLen : PostPrintBody(len)
  \/ printToBLEPrinter
  \/ PostPrint
  \/ HttpSend

SpecChunk == InitSession /\ [][NextChunk]_vars

\* The screen: the clock runs, the button is pressed, fragments arrive with
\* or without a session; no advertisement matches and the link stays as it is.
NextScreen ==
  \/ LoopButton
  \/ pc["loop"] = "l_wake" /\ WakeStamp("loop", "l_wake2")
  \/ pc["loop"] = "l_wake2" /\ WakeLight("loop", "l_check")
  \/ CheckRead
  \/ CheckTimeout
  \/ LoopScan
  \/ ScanTimeout
  \/ LoopScanEnd
  \/ LoopReconnect
  \/ LoopWiFi
  \/ connectToWiFi
  \/ WiFiDrop
  \/ Tick
  \/ \E len \in ScreenLens : PostPrintBody(len)
  \/ printToBLEPrinter
  \/ PostPrint
  \/ HttpSend

SpecScreen == (Init \/ InitSession) /\ [][NextScreen]_vars

\* ===================================================================
\* Claims
\* ===================================================================

\* the bytes the chunks of a log hand to writeValue, in the order issued
RECURSIVE Delivered(_, _)
Delivered(chunks, data) ==
  IF chunks = <<>> THEN <<>>
  ELSE Delivered(SubSeq(chunks, 1, Len(chunks) - 1), data)
         \o SubSeq(data, chunks[Len(chunks)][1] + 1,
                   chunks[Len(chunks)][1] + chunks[Len(chunks)][2])

CeilDiv(n, d) == (n + d - 1) \div d

\* a turn of the write loop that issues a chunk write
ChunkStep == Len(print'.chunks) = Len(print.chunks) + 1

\* C1: a write of L bytes on a connected, writable characteristic in which
\* no chunk fails issues chunks of 1 to CHUNK_SIZE bytes that lie inside the
\* payload and, put together in the order issued, are the payload's first
\* bytes with none repeated, left out or moved; when the loop has ended
\* there are exactly ceil(L / CHUNK_SIZE) of them and they are the payload.
C1_ChunksArePayload ==
  (pc["http"] = "p_loop" /\ print.failed = 0) =>
    LET L == print.length
        n == Len(print.chunks)
    IN  /\ \A i \in 1..n :
             /\ print.chunks[i][2] \in 1..CHUNK_SIZE
             /\ print.chunks[i][1] + print.chunks[i][2] <= L
        /\ print.offset <= L
        /\ Delivered(print.chunks, Payload(L)) = SubSeq(Payload(L), 1, print.offset)
        /\ print.offset >= L =>
             /\ n = CeilDiv(L, CHUNK_SIZE)
             /\ Delivered(print.chunks, Payload(L)) = Payload(L)

\* C1's case: 500 bytes have gone out as 240, 240 and 20, none failed.
C1_Witness ==
  /\ pc["http"] = "p_loop"
  /\ print.length = 500
  /\ print.failed = 0
  /\ print.chunks = << <<0, 240>>, <<240, 240>>, <<480, 20>> >>
  /\ print.offset = 500

\* C3: once a chunk write has failed the write stops at that chunk: the
\* failed chunk is the last one issued.
C3_AbortsAtFailedChunk ==
  (pc["http"] = "p_loop" /\ print.failed > 0) => Len(print.chunks) = print.failed

\* the steps of connectToPrinter past its two early returns
InFlight ==
  {"c_cleanup", "c_create", "c_connect", "c_mtu", "c_service", "c_char",
   "c_name", "c_done", "c_fail"}

\* context self leaves label l in this step (the device has not halted)
Leaves(self, l) == pc[self] = l /\ pc'[self] # l /\ fault' = "none"

\* C2: disconnectFromPrinter and onDisconnect leave the connected flag
\* false; only a connectToPrinter that succeeds sets it; and a write that
\* finds it false returns NotConnected without any characteristic write.
\* So a write that runs after a disconnect and before a later connect has
\* succeeded fails as NotConnected with no radio operation.
C2_NoWriteAfterDisconnect ==
  [][ /\ Leaves("ble", "b_ondisc") => ~printerConnected'
      /\ Leaves("http", "d_flag") => ~printerConnected'
      /\ (~printerConnected /\ printerConnected') =>
           \E self \in Callers : Leaves(self, "c_done") /\ cret'[self]
      /\ (Leaves("http", "p_check") /\ ~printerConnected) =>
           /\ pc'["http"] = "idle"
           /\ req'.dropped = req.dropped + 1
           /\ req'.writes = req.writes
           /\ print' = NoPrint
           /\ link' = link ]_vars

\* C2's case: the one session there was has been disconnected, and a
\* fragment that came after that was dropped as NotConnected.
C2_Witness ==
  /\ pc["http"] = "idle"
  /\ pc["ble"] = "idle"
  /\ ~printerConnected
  /\ link = <<"down">>
  /\ pRemoteCharacteristic = Characteristic(1, TRUE)
  /\ req.open
  /\ ~req.up
  /\ req.dropped = 1
  /\ req.writes = 0

\* C4: connectToPrinter entered while connected returns true at once and
\* changes nothing: no scan, no client, no link, no handle, no name, no
\* device, no flag.
C4_ConnectWhenConnected ==
  [][ \A self \in Callers :
        (Leaves(self, "c_entry") /\ printerConnected) =>
          /\ cret'[self]
          /\ pc'[self] = (IF self = "loop" THEN "l_after" ELSE "h_connected")
          /\ UNCHANGED <<printerName, myDevice, printerFound, scanCount,
                         printerConnected, pClient, pRemoteCharacteristic,
                         scanning, link>> ]_vars

\* C4's case: both callers have had true from connectToPrinter though only
\* one client was ever made, so one of them returned at the entry.
C4_Witness ==
  /\ pc["http"] = "h_connected"
  /\ cret["http"]
  /\ pc["loop"] = "l_after"
  /\ cret["loop"]
  /\ Len(link) = 1
  /\ printerConnected

\* C5: no chunk is written while a connect attempt is in flight.
C5_WriteExcludesConnect ==
  [][ ChunkStep => \A self \in Callers : pc[self] \notin InFlight ]_vars

\* C6: between two chunks, once the connected flag is false no further
\* chunk is written.
C6_NoChunkOnceDisconnected ==
  [][ (ChunkStep /\ print.chunks # <<>>) => printerConnected ]_vars

\* C7: a POST /print during which the printer was never connected is
\* answered 500 "Printer not connected", every fragment of it was dropped
\* as NotConnected and none caused a characteristic write.
C7_PrintWhenNotConnected ==
  (pc["http"] = "h_send" /\ resp.route = "/print" /\ ~resp.req.up) =>
    /\ resp.code = 500
    /\ resp.text = "Printer not connected"
    /\ resp.req.dropped = resp.req.frags
    /\ resp.req.writes = 0

\* C7's case: two fragments came with no printer connected, then the answer.
C7_Witness ==
  /\ pc["http"] = "h_send"
  /\ resp.route = "/print"
  /\ resp.code = 500
  /\ ~resp.req.up
  /\ resp.req.frags = 2
  /\ resp.req.dropped = 2

\* a step of wakeScreen: the write of the activity time, the backlight
WakeStampStep == \E self \in {"loop", "http"} :
  Leaves(self, IF self = "loop" THEN "l_wake" ELSE "p_wake")
WakeLightStep == \E self \in {"loop", "http"} :
  Leaves(self, IF self = "loop" THEN "l_wake2" ELSE "p_wake2")

\* C8: the screen goes off only in checkScreenTimeout and only when more
\* than SCREEN_TIMEOUT ms have passed since the last activity; it goes on
\* only in wakeScreen; wakeScreen records the time of its call and leaves
\* the screen on.
C8_ScreenOffOnlyAfterTimeout ==
  [][ /\ (isScreenOn /\ ~isScreenOn') =>
           /\ Leaves("loop", "l_check2")
           /\ Gt32(idle, U32(SCREEN_TIMEOUT))
      /\ (~isScreenOn /\ isScreenOn') => WakeLightStep
      /\ WakeStampStep => lastActivityTime' = now
      /\ WakeLightStep => isScreenOn' ]_vars

\* no connectToPrinter call is running
NoConnectRunning ==
  \A self \in Callers : pc[self] \notin InFlight \cup {"c_entry", "c_found"}

\* C9: whenever no connect is running, the status object has its five
\* fields in order, names the default printer name when it reports the
\* printer disconnected, and gives an empty address when it reports WiFi
\* disconnected.
C9_StatusDefaults ==
  NoConnectRunning =>
    LET s == getStatusJSON
    IN  /\ Len(s) = 5
        /\ <<s[1][1], s[2][1], s[3][1], s[4][1], s[5][1]>> =
             <<"wifi", "ip", "printer", "printerName", "uptime">>
        /\ s[1][2] \in {"connected", "disconnected"}
        /\ s[3][2] \in {"connected", "disconnected"}
        /\ s[3][2] = "disconnected" => s[4][2] = DefaultName
        /\ s[1][2] = "disconnected" => s[2][2] = NoIP

\* the advertised addresses that are the target's but for letter case
TargetSpellings == {TargetLiteral, UpperTarget}

\* C10: onResult runs only during a scan and counts the advertisement; if
\* the address is the target's in any letter case it stops the scan in the
\* same step and then stores the device (whatever was stored before) and
\* sets the found flag; for any other address it leaves the stored device,
\* the found flag and the scan as they are.
C10_OnResultMatch ==
  [][ /\ Leaves("ble", "idle") /\ pc'["ble"] \in {"b_store", "b_return"} =>
           /\ scanning
           /\ scanCount' = scanCount + 1
           /\ adv' \in TargetSpellings =>
                pc'["ble"] = "b_store" /\ ~scanning'
           /\ adv' \notin TargetSpellings =>
                /\ pc'["ble"] = "b_return"
                /\ UNCHANGED <<myDevice, printerFound, scanning>>
      /\ Leaves("ble", "b_store") =>
           /\ adv \in TargetSpellings
           /\ myDevice' = Device(TargetLiteral)
           /\ printerFound'
           /\ UNCHANGED <<scanCount, scanning>>
      /\ Leaves("ble", "b_return") =>
           UNCHANGED <<myDevice, printerFound, scanning, scanCount>> ]_vars

\* C10's case: in a second scan the target's address arrived in capitals
\* after another address; the scan is stopped and the device stored by the
\* first scan is deleted, about to be replaced.
C10_Witness ==
  /\ pc["ble"] = "b_store"
  /\ adv = UpperTarget
  /\ ~scanning
  /\ scanCount = 2
  /\ myDevice = FreedDev

\* printToBLEPrinter returns to the body handler in this step
SubmissionReturns ==
  /\ pc["http"] \in {"p_check", "p_canwrite", "p_loop"}
  /\ pc'["http"] = "idle"

\* C11: printToBLEPrinter calls wakeScreen before anything else, so when a
\* submission returns, with or without a write, the screen is on, unless
\* more than SCREEN_TIMEOUT ms have passed since that wake.
C11_SubmissionLeavesScreenOn ==
  [][ SubmissionReturns =>
        isScreenOn' \/ Gt32(idle', U32(SCREEN_TIMEOUT)) ]_vars

\* the session is as a disconnectFromPrinter leaves it: the flag false,
\* the handle cleared, no open link under pClient
Disconnected ==
  /\ ~printerConnected
  /\ pRemoteCharacteristic = NullChar
  /\ pClient # 0 => link[pClient] # "up"

\* a step of disconnectFromPrinter
DisconnectStep ==
  \E l \in {"d_close", "d_clear", "d_flag"} : Leaves("http", l)

\* C12: disconnectFromPrinter asks an open link to close, clears the
\* handle and the flag and GET /disconnect answers 200 whatever the state
\* was; run on a session that is already disconnected (none was made, or
\* the call is the second in a row) it changes nothing of the session.
C12_DisconnectIdempotent ==
  [][ /\ Leaves("http", "d_close") =>
           /\ pc'["http"] = "d_clear"
           /\ pClient # 0 => link'[pClient] # "up"
      /\ Leaves("http", "d_clear") =>
           /\ pc'["http"] = "d_flag"
           /\ pRemoteCharacteristic' = NullChar
      /\ Leaves("http", "d_flag") =>
           /\ ~printerConnected'
           /\ pc'["http"] = "h_send"
           /\ resp'.route = "/disconnect"
           /\ resp'.code = 200
      /\ (DisconnectStep /\ Disconnected) =>
           /\ Disconnected'
           /\ UNCHANGED <<printerName, myDevice, printerFound, scanCount,
                          printerConnected, pClient, pRemoteCharacteristic,
                          scanning, link>> ]_vars

\* C12's case: a first call has asked client 1 to close and cleared handle
\* and flag; a second call, made before the stack reported the close, is at
\* its last statement and has changed nothing.
C12_Witness ==
  /\ pc["http"] = "d_flag"
  /\ pc["loop"] \notin InFlight \cup {"c_entry", "c_found"}
  /\ pClient = 1
  /\ link = <<"closing">>
  /\ Disconnected

\* C13: when a connectToPrinter that read the discovered device has
\* returned, to the main loop or to the handler of GET /connect, with true
\* or with false, the caller's next step leaves the found flag false.
C13_AttemptConsumesDiscovery ==
  [][ /\ (Leaves("loop", "l_after") /\ cdev["loop"]) => ~printerFound'
      /\ (Leaves("http", "h_connected") /\ cdev["http"]) => ~printerFound' ]_vars

\* C14: whenever no connectToPrinter is running and the connected flag is
\* false, the characteristic handle is null.
C14_HandleClearedWhenDisconnected ==
  (NoConnectRunning /\ ~printerConnected) => pRemoteCharacteristic = NullChar

\* the clients whose link to the printer is open
OpenClients == {c \in 1..Len(link) : link[c] = "up"}

\* C15: at most one client has an open link, and a client with an open
\* link is the one pClient points to.
C15_OneLinkSession ==
  /\ Cardinality(OpenClients) <= 1
  /\ \A c \in OpenClients : pClient = c

\* where connectToPrinter returns to
ReturnLabel(self) == IF self = "loop" THEN "l_after" ELSE "h_connected"

\* C16: a connectToPrinter that finds no device or gets no client returns
\* false to its caller; one that fails at the handshake, after the MTU
\* exchange, at the service or at the characteristic still has its client
\* when it comes to the failure exit, closes it, forgets it, leaves the
\* flag false and returns false.
C16_ConnectFailureReported ==
  [][ \A self \in Callers :
        /\ (pc[self] \in {"c_found", "c_create"} /\ pc'[self] = ReturnLabel(self))
             => ~cret'[self]
        /\ pc[self] = "c_fail" => pClient # 0
        /\ Leaves(self, "c_fail") =>
             /\ pc'[self] = ReturnLabel(self)
             /\ ~cret'[self]
             /\ ~printerConnected'
             /\ pClient' = 0
             /\ link'[pClient] # "up" ]_vars

\* context self, and no other, moves on in this step
OwnStep(self) ==
  /\ pc'[self] # pc[self]
  /\ \A other \in Contexts \ {self} : pc'[other] = pc[other]

\* C17: when connectToPrinter reads the stored device, for the address it
\* logs (line 317) or for the handshake (line 339), the pointer it reads
\* is that of a device now stored, not of one onResult has deleted.
C17_DeviceReadIsStored ==
  [][ \A self \in Callers :
        /\ (OwnStep(self) /\ pc[self] = "c_found" /\ printerFound
              /\ myDevice # NullDev) => myDevice.st = "dev"
        /\ (OwnStep(self) /\ pc[self] = "c_connect" /\ pClient # 0)
              => myDevice.st = "dev" ]_vars

\* C18: while the connected flag is true some client's link is open or
\* closing, or the stack is about to run onDisconnect: the flag does not
\* stay true over a link whose loss has already been reported.
C18_FlagFollowsLink ==
  (printerConnected /\ pc["ble"] # "b_ondisc") =>
    \E c \in 1..Len(link) : isConnected(c)

\* C19: a POST /print answered 200 had no fragment dropped as
\* NotConnected, and one answered 500 had no chunk of any fragment written.
C19_AnswerMatchesFragments ==
  (pc["http"] = "h_send" /\ resp.route = "/print") =>
    /\ resp.code = 200 => resp.req.dropped = 0
    /\ resp.code = 500 => resp.req.writes = 0

\* ===================================================================
\* Liveness of the reconnect
\* ===================================================================
\* The main loop and the scan callback in the surroundings C20 supposes:
\* every scan gets a matching advertisement (after at most MaxScanCount - 1
\* others) and every step of connectToPrinter succeeds.  WiFi is down and
\* stays down, so every turn of the loop spends up to 15 s in connectToWiFi
\* (lines 219-223), more than bleScanInterval: the scan of line 186 is due
\* in every turn.
InitLive == Init /\ ~wifiUp

LoopLive ==
  \/ LoopButton
  \/ pc["loop"] = "l_wake" /\ WakeStamp("loop", "l_wake2")
  \/ pc["loop"] = "l_wake2" /\ WakeLight("loop", "l_check")
  \/ CheckRead
  \/ CheckTimeout
  \/ LoopScan /\ scanning'
  \/ LoopScanEnd
  \/ LoopReconnect
  \/ ConnectEntry("loop")
  \/ ConnectFound("loop") /\ fault' = "none"
  \/ ConnectCleanup("loop")
  \/ ConnectCreate("loop") /\ pClient' # 0
  \/ ConnectGatt("loop") /\ pc'["loop"] = "c_mtu"
  \/ ConnectMtu("loop")
  \/ ConnectService("loop") /\ pc'["loop"] = "c_char"
  \/ ConnectCharacteristic("loop") /\ pc'["loop"] = "c_name"
  \/ ConnectName("loop")
  \/ ConnectDone("loop")
  \/ LoopAfterConnect
  \/ LoopWiFi
  \/ connectToWiFi /\ ~wifiUp'

BleLive ==
  \/ \E addr \in AdvAddrs :
       Advertisement(addr) /\ (IsPrinter(addr) \/ scanCount' < MaxScanCount)
  \/ StoreDevice
  \/ ResultReturn

NextLive == LoopLive \/ BleLive

\* Both tasks are scheduled again and again: a step that stays possible is
\* taken.
SpecLive ==
  InitLive /\ [][NextLive]_vars /\ WF_vars(LoopLive) /\ WF_vars(BleLive)

\* C20: with the loop and the callback scheduled fairly, every scan
\* finding the printer and every connect step succeeding, the session
\* becomes connected.
C20_EventuallyConnected == <>printerConnected

====
